---- MODULE Spec2Model ----
(***************************************************************************)
(* Sister Leagues dashboard (src/SL_app.py): the weekly score calculator,  *)
(* the refresh that saves a week's outcome rows to the "weekly_scores"     *)
(* worksheet, and the season standings derived from that worksheet.        *)
(***************************************************************************)
EXTENDS Integers, Sequences, FiniteSets, TLC

\* ------------------------------------------------------------------ bounds
MaxWeek == 2          \* weeks the week selector offers in the model
MaxScore == 2         \* scores are drawn from 1..MaxScore
MaxDrift == 1         \* points a live total may gain while one refresh runs
SeasonWeeks == 3      \* weeks of history the standings pages are shown over

\* ------------------------------------------------------- program constants
Top6 == 6             \* sorted_scores[:6]
Axes == 3             \* losses = 3 - wins
RedIdOffset == 100    \* team_id + 100 for the red league in get_teams
CompleteAfterDays == 5
DaysPerWeek == 7

\* The two leagues together hold one team more than the top-6 cut takes, so
\* that a 6th/7th boundary exists.
BrownTeams == Top6 - 2
RedTeams == Top6 - 3

Leagues == {"brown", "red"}
OtherLeague(l) == IF l = "brown" THEN "red" ELSE "brown"
NTeams(l) == IF l = "brown" THEN BrownTeams ELSE RedTeams

\* ------------------------------------------------------ team identities
\* A team id is a Python value: None, an int (ESPN's raw teamId, or the
\* raw id + 100 of get_teams) or a str (the f"{league_type}_{raw_id}" key
\* of get_live_scores).  Python's == between an int and a str is False.
NoneId == [tag |-> "none", league |-> "", n |-> 0]
IntId(k) == [tag |-> "int", league |-> "", n |-> k]
StrId(l, k) == [tag |-> "str", league |-> l, n |-> k]
Truthy(id) == id.tag = "str" \/ (id.tag = "int" /\ id.n # 0)

\* manager names of the "teams" worksheet and the "matchups" worksheet
ManagerName(l, k) == [league |-> l, k |-> k]
NoManager == [league |-> "", k |-> 0]

\* ------------------------------------------------------- dict helpers
\* A dict is a sequence of [key, val] entries in insertion order.
DictKeys(d) == {d[i].key : i \in 1..Len(d)}
DictGet(d, k, default) ==
  IF k \in DictKeys(d)
  THEN d[CHOOSE i \in 1..Len(d) : d[i].key = k].val
  ELSE default

RECURSIVE DictPut(_, _, _)
DictPut(d, k, v) ==
  IF d = <<>> THEN <<[key |-> k, val |-> v]>>
  ELSE IF Head(d).key = k THEN <<[key |-> k, val |-> v]>> \o Tail(d)
  ELSE <<Head(d)>> \o DictPut(Tail(d), k, v)

\* {**a, **b}
RECURSIVE DictMerge(_, _)
DictMerge(a, b) ==
  IF b = <<>> THEN a
  ELSE DictMerge(DictPut(a, Head(b).key, Head(b).val), Tail(b))

\* sorted(items, key=lambda x: x[1], reverse=True): stable, descending
SortedDesc(d) ==
  LET rank(i) == Cardinality({j \in 1..Len(d) : d[j].val > d[i].val})
               + Cardinality({j \in 1..(i - 1) : d[j].val = d[i].val}) + 1
  IN [r \in 1..Len(d) |-> d[CHOOSE i \in 1..Len(d) : rank(i) = r]]

Min(a, b) == IF a < b THEN a ELSE b

\* ------------------------------------------------------- ESPNFantasyAPI
\* An mRoster response is [ok, teams]: ok = FALSE when make_request raises,
\* teams a sequence of [id, total], total being the sum of the starters'
\* appliedStatTotal.  The except branch returns {}.
RECURSIVE TeamScores(_, _)
TeamScores(teams, acc) ==
  IF teams = <<>> THEN acc
  ELSE TeamScores(Tail(teams), DictPut(acc, Head(teams).id, Head(teams).total))

get_live_scores(league, resp) ==
  IF ~resp.ok THEN <<>>
  ELSE LET team_scores == TeamScores(resp.teams, <<>>)
       IN [i \in 1..Len(team_scores) |->
             [key |-> StrId(league, team_scores[i].key), val |-> team_scores[i].val]]

\* The games of an mMatchup response are a sequence of
\* [matchupPeriodId, away, home]; away/home = 0 stands for a missing
\* teamId, which is skipped.  (A failed request raises: see Calc.)
RECURSIVE get_matchups(_, _)
get_matchups(league, games) ==
  IF games = <<>> THEN <<>>
  ELSE LET g == Head(games)
           rest == get_matchups(league, Tail(games))
       IN IF g.away = 0 \/ g.home = 0 THEN rest
          ELSE <<[week |-> g.matchupPeriodId, away_team_id |-> IntId(g.away),
                  home_team_id |-> IntId(g.home), league |-> league]>> \o rest

\* week_complete = week_1_start + (week-1) weeks + 5 days; now counts the
\* days since week_1_start
is_week_complete(week, now) == now >= DaysPerWeek * (week - 1) + CompleteAfterDays

\* get_teams: the team list of one league from an mTeam response listing
\* the raw ids, red ids made unique by adding 100
get_teams(l, ids) ==
  [i \in 1..Len(ids) |->
     [team_id |-> IntId(IF l = "red" THEN ids[i] + RedIdOffset ELSE ids[i]),
      team_name |-> ManagerName(l, ids[i]), league |-> l]]

\* ---------------------------------------------------- GoogleSheetsManager
\* update_worksheet(sheet_name, df): worksheet(), clear(), update().  The
\* call can fail before the sheet is cleared, or after it; the new content
\* of the sheet is
WriteOutcomes == {"ok", "failed_before_clear", "failed_after_clear"}
update_worksheet_append(sheet, df, outcome) ==
  CASE outcome = "ok" -> sheet \o df
    [] outcome = "failed_before_clear" -> sheet
    [] outcome = "failed_after_clear" -> <<>>

update_worksheet(sheet, df, outcome) ==
  CASE outcome = "ok" -> df
    [] outcome = "failed_before_clear" -> sheet
    [] outcome = "failed_after_clear" -> <<>>

\* get_worksheet_data: the sheet's records, an empty frame when the read fails
get_worksheet_data(sheet, read_ok) == IF read_ok THEN sheet ELSE <<>>

\* ------------------------------------------------ the program's environment
\* ESPN's mRoster responses of a league: every team 1..NTeams(l) with a
\* total in 1..MaxScore, or a failed request
RosterOk(l) ==
  {[ok |-> TRUE, teams |-> [i \in 1..NTeams(l) |-> [id |-> i, total |-> f[i]]]] :
     f \in [1..NTeams(l) -> 1..MaxScore]}
RosterFailed == [ok |-> FALSE, teams |-> <<>>]
Rosters(l) == RosterOk(l) \cup {RosterFailed}

\* the rosters of the refresh scenarios: the totals 1, 2, .., MaxScore, 1, ..
\* down the league, starting s places on
ShiftedRoster(l, s) ==
  [ok |-> TRUE,
   teams |-> [i \in 1..NTeams(l) |->
                [id |-> i, total |-> ((i - 1 + s) % MaxScore) + 1]]]

\* the same response d points later in the game
Drift(resp, d) ==
  [ok |-> resp.ok,
   teams |-> [i \in 1..Len(resp.teams) |->
                [id |-> resp.teams[i].id, total |-> resp.teams[i].total + d]]]

\* ESPN's schedule of a league: in every week team 2k-1 plays team 2k, the
\* home side alternating by week; one entry of the schedule has no away team
WeekGames(l, w) ==
  [k \in 1..(NTeams(l) \div 2) |->
     IF w % 2 = 1
     THEN [matchupPeriodId |-> w, away |-> 2 * k - 1, home |-> 2 * k]
     ELSE [matchupPeriodId |-> w, away |-> 2 * k, home |-> 2 * k - 1]]
RECURSIVE SeasonGames(_, _)
SeasonGames(l, w) ==
  IF w = 0 THEN <<[matchupPeriodId |-> 1, away |-> 0, home |-> 1]>>
  ELSE SeasonGames(l, w - 1) \o WeekGames(l, w)
FullSchedule(l) == [ok |-> TRUE, games |-> SeasonGames(l, MaxWeek)]
NoSchedule == [ok |-> TRUE, games |-> <<>>]
ScheduleFailed == [ok |-> FALSE, games |-> <<>>]

\* the "teams" worksheet: as refresh_data creates it from get_teams (int ids,
\* the red ones + 100), or kept by hand with the ids of the score keys
EspnTeams(l) == get_teams(l, [k \in 1..NTeams(l) |-> k])
ManualTeams(l) ==
  [k \in 1..NTeams(l) |->
     [team_id |-> StrId(l, k), team_name |-> ManagerName(l, k), league |-> l]]
TeamSheets ==
  {EspnTeams("brown") \o EspnTeams("red"), ManualTeams("brown") \o ManualTeams("red")}

\* the "matchups" worksheet: in week w brown manager k meets red manager
\* k + w - 1 (wrapping round); a brown manager beyond the red league's size
\* is paired with a name that is on no team
CrossRow(w, k) ==
  [week |-> w, brown_league_manager |-> ManagerName("brown", k),
   red_league_manager |->
     IF k <= RedTeams THEN ManagerName("red", ((k + w - 2) % RedTeams) + 1)
     ELSE NoManager]
RECURSIVE CrossRows(_)
CrossRows(w) ==
  IF w = 0 THEN <<>> ELSE CrossRows(w - 1) \o [k \in 1..BrownTeams |-> CrossRow(w, k)]
CrossSheets == {CrossRows(MaxWeek), <<>>}

\* ------------------------------------------------------- ScoreCalculator
\* all_teams_df[(team_name == name) & (league == l)]: the index of the
\* first such row of the team list, 0 when the selection is empty
FindTeam(all_teams, name, l) ==
  LET hits == {i \in 1..Len(all_teams) :
                 all_teams[i].team_name = name /\ all_teams[i].league = l}
  IN IF hits = {} THEN 0 ELSE CHOOSE i \in hits : \A j \in hits : i <= j

\* the cross_opponents dict built from this week's rows of the "matchups"
\* worksheet
RECURSIVE CrossOpponents(_, _, _, _)
CrossOpponents(cross_matchups, all_teams, league, acc) ==
  IF cross_matchups = <<>> THEN acc
  ELSE LET match == Head(cross_matchups)
           b == FindTeam(all_teams, match.brown_league_manager, "brown")
           r == FindTeam(all_teams, match.red_league_manager, "red")
           next == IF b # 0 /\ r # 0
                   THEN IF league = "brown"
                        THEN DictPut(acc, all_teams[b].team_id, all_teams[r].team_id)
                        ELSE DictPut(acc, all_teams[r].team_id, all_teams[b].team_id)
                   ELSE acc
       IN CrossOpponents(Tail(cross_matchups), all_teams, league, next)

\* the loop over week_matchups: no break, the last matching game wins
RECURSIVE IntraScan(_, _, _, _)
IntraScan(week_matchups, team_id, scores, acc) ==
  IF week_matchups = <<>> THEN acc
  ELSE LET matchup == Head(week_matchups)
           next == IF matchup.away_team_id = team_id
                   THEN [opp |-> matchup.home_team_id,
                         score |-> DictGet(scores, matchup.home_team_id, 0)]
                   ELSE IF matchup.home_team_id = team_id
                   THEN [opp |-> matchup.away_team_id,
                         score |-> DictGet(scores, matchup.away_team_id, 0)]
                   ELSE acc
       IN IntraScan(Tail(week_matchups), team_id, scores, next)

IntraPointsNoOpponentCheck(week_complete, intra_opponent, score, intra_opponent_score) ==
  IF week_complete /\ score >= intra_opponent_score THEN 1 ELSE 0

IntraPoints(week_complete, intra_opponent, score, intra_opponent_score) ==
  IF week_complete /\ Truthy(intra_opponent) /\ score > intra_opponent_score THEN 1 ELSE 0

CrossPointsNoOpponentCheck(week_complete, cross_opponent, score, cross_opponent_score) ==
  IF week_complete /\ score > cross_opponent_score THEN 1 ELSE 0

CrossPointsWhileLive(week_complete, cross_opponent, score, cross_opponent_score) ==
  IF Truthy(cross_opponent) /\ score > cross_opponent_score THEN 1 ELSE 0

CrossPoints(week_complete, cross_opponent, score, cross_opponent_score) ==
  IF week_complete /\ Truthy(cross_opponent) /\ score > cross_opponent_score THEN 1 ELSE 0

Top6Points(week_complete, team_id, top6_teams) ==
  IF week_complete /\ team_id \in top6_teams THEN 1 ELSE 0

LossesOfTwoAxes(week_complete, wins) == IF week_complete THEN Axes - 1 - wins ELSE 0

Losses(week_complete, wins) == IF week_complete THEN Axes - wins ELSE 0

\* One pass of the loop "for team_id, score in scores.items()".  later[i]
\* is the response of the other league's mRoster request made while the
\* i-th team is processed (line 373 fetches again).
TeamRow(i, scores, week_matchups, cross_opponents, league, week, week_complete, top6_teams, later) ==
  LET team_id == scores[i].key
      score == scores[i].val
      intra == IntraScan(week_matchups, team_id, scores, [opp |-> NoneId, score |-> 0])
      cross_opponent == DictGet(cross_opponents, team_id, NoneId)
      cross_opponent_score ==
        IF Truthy(cross_opponent)
        THEN DictGet(get_live_scores(OtherLeague(league), later[i]), cross_opponent, 0)
        ELSE 0
      intra_points == IntraPoints(week_complete, intra.opp, score, intra.score)
      cross_points == CrossPoints(week_complete, cross_opponent, score, cross_opponent_score)
      top6_points == Top6Points(week_complete, team_id, top6_teams)
      wins == intra_points + cross_points + top6_points
  IN [week |-> week, team_id |-> team_id, league |-> league, actual_score |-> score,
      intra_opponent |-> intra.opp, intra_opponent_score |-> intra.score,
      cross_opponent |-> cross_opponent, cross_opponent_score |-> cross_opponent_score,
      intra_league_points |-> intra_points, cross_league_points |-> cross_points,
      top6_points |-> top6_points, total_weekly_points |-> wins,
      weekly_losses |-> Losses(week_complete, wins), week_complete |-> week_complete]

process_league_scores(scores, matchups, cross_matchups, league, week, week_complete, top6_teams, all_teams, later) ==
  LET week_matchups == SelectSeq(matchups, LAMBDA m : m.week = week)
      cross_opponents == CrossOpponents(cross_matchups, all_teams, league, <<>>)
  IN [i \in 1..Len(scores) |->
        TeamRow(i, scores, week_matchups, cross_opponents, league, week,
                week_complete, top6_teams, later)]

\* top6_teams: the keys of sorted_scores[:6], empty unless the week is complete
Top6Teams(all_scores, week_complete) ==
  IF week_complete
  THEN LET sorted_scores == SortedDesc(all_scores)
       IN {sorted_scores[i].key : i \in 1..Min(Top6, Len(sorted_scores))}
  ELSE {}

\* in is the record of everything one call reads from outside:
\*   brown, red            the mRoster responses of lines 262-263
\*   brown_games, red_games  [ok, games] mMatchup responses
\*   cross                 the rows of the "matchups" worksheet (empty when
\*                         the read failed)
\*   week_complete         is_week_complete(week) at line 284
\*   later                 [brown, red]: the responses of the requests of
\*                         line 373, by position of the processed team
\* The result is [ok, rows]; ok = FALSE when get_matchups raised.
calculate_weekly_scores(week, all_teams, in) ==
  IF ~in.brown_games.ok \/ ~in.red_games.ok THEN [ok |-> FALSE, rows |-> <<>>]
  ELSE
    LET brown_scores == get_live_scores("brown", in.brown)
        red_scores == get_live_scores("red", in.red)
        brown_matchups == get_matchups("brown", in.brown_games.games)
        red_matchups == get_matchups("red", in.red_games.games)
        week_cross_matchups == SelectSeq(in.cross, LAMBDA m : m.week = week)
        all_scores == DictMerge(brown_scores, red_scores)
        top6_teams == Top6Teams(all_scores, in.week_complete)
        brown_data == process_league_scores(brown_scores, brown_matchups,
                        week_cross_matchups, "brown", week, in.week_complete,
                        top6_teams, all_teams, in.later.red)
        red_data == process_league_scores(red_scores, red_matchups,
                        week_cross_matchups, "red", week, in.week_complete,
                        top6_teams, all_teams, in.later.brown)
    IN [ok |-> TRUE, rows |-> brown_data \o red_data]

\* ------------------------------------------------------- standings pages
\* the order of the str ids "brown_1" < "brown_2" < ... < "red_1" < ...
\* (ids of one digit), which groupby sorts its keys by
IdBefore(a, b) ==
  \/ a.league = "brown" /\ b.league = "red"
  \/ a.league = b.league /\ a.n < b.n

\* the distinct team ids of a frame, in groupby's sorted order
GroupKeys(df) ==
  LET keys == {df[i].team_id : i \in 1..Len(df)}
      pos(k) == Cardinality({j \in keys : IdBefore(j, k)}) + 1
  IN [r \in 1..Cardinality(keys) |-> CHOOSE k \in keys : pos(k) = r]

ColumnLast(rows, col) == IF rows = <<>> THEN 0 ELSE rows[Len(rows)][col]

\* agg 'sum' of one column over the rows of a group
RECURSIVE ColumnSum(_, _)
ColumnSum(rows, col) ==
  IF rows = <<>> THEN 0 ELSE Head(rows)[col] + ColumnSum(Tail(rows), col)

GroupRows(df, key) == SelectSeq(df, LAMBDA row : row.team_id = key)

\* merge(all_teams[['team_id', 'team_name']], on='team_id'): an inner join
\* in the order of the left rows; left.team_name is filled from the right
RECURSIVE Merge(_, _)
Merge(left, all_teams) ==
  IF left = <<>> THEN <<>>
  ELSE LET hits == SelectSeq(all_teams, LAMBDA t : t.team_id = Head(left).team_id)
       IN [i \in 1..Len(hits) |-> [Head(left) EXCEPT !.team_name = hits[i].team_name]]
          \o Merge(Tail(left), all_teams)

\* pandas refuses to merge a str key column with an int64 one
MergeRaises(left, all_teams) ==
  /\ left # <<>> /\ all_teams # <<>>
  /\ \A i \in 1..Len(left) : left[i].team_id.tag = "str"
  /\ \A i \in 1..Len(all_teams) : all_teams[i].team_id.tag = "int"

\* sort_values(col, ascending=False): rows of equal value keep their order
SortByDescending(rows, col) ==
  LET rank(i) == Cardinality({j \in 1..Len(rows) : rows[j][col] > rows[i][col]})
               + Cardinality({j \in 1..(i - 1) : rows[j][col] = rows[i][col]}) + 1
  IN [r \in 1..Len(rows) |-> rows[CHOOSE i \in 1..Len(rows) : rank(i) = r]]

\* display_league_standings: [shown, rows]; shown is "no_data" for a league
\* without rows and "error" when the merge raises
display_league_standings(weekly_scores_df, all_teams, league) ==
  LET league_data == SelectSeq(weekly_scores_df, LAMBDA row : row.league = league)
      keys == GroupKeys(league_data)
      standings ==
        [g \in 1..Len(keys) |->
           [team_id |-> keys[g], team_name |-> NoManager,
            wins |-> ColumnSum(GroupRows(league_data, keys[g]), "total_weekly_points"),
            losses |-> ColumnSum(GroupRows(league_data, keys[g]), "weekly_losses"),
            total_points |-> ColumnSum(GroupRows(league_data, keys[g]), "actual_score")]]
      sorted == SortByDescending(Merge(standings, all_teams), "wins")
  IN IF league_data = <<>> THEN [shown |-> "no_data", rows |-> <<>>]
     ELSE IF MergeRaises(standings, all_teams) THEN [shown |-> "error", rows |-> <<>>]
     ELSE [shown |-> "standings",
           rows |-> [i \in 1..Len(sorted) |->
                       [rank |-> i, team_id |-> sorted[i].team_id,
                        team_name |-> sorted[i].team_name, wins |-> sorted[i].wins,
                        losses |-> sorted[i].losses,
                        total_points |-> sorted[i].total_points]]]

\* show_records: the detailed records of both leagues together
show_records(weekly_scores_df, all_teams) ==
  LET keys == GroupKeys(weekly_scores_df)
      records ==
        [g \in 1..Len(keys) |->
           LET rows == GroupRows(weekly_scores_df, keys[g])
           IN [team_id |-> keys[g], team_name |-> NoManager,
               league |-> rows[1].league,
               intra_league_points |-> ColumnSum(rows, "intra_league_points"),
               cross_league_points |-> ColumnSum(rows, "cross_league_points"),
               top6_points |-> ColumnSum(rows, "top6_points"),
               total_weekly_points |-> ColumnSum(rows, "total_weekly_points"),
               weekly_losses |-> ColumnSum(rows, "weekly_losses")]]
  IN IF weekly_scores_df = <<>> THEN [shown |-> "no_data", rows |-> <<>>]
     ELSE IF MergeRaises(records, all_teams) THEN [shown |-> "error", rows |-> <<>>]
     ELSE [shown |-> "records",
           rows |-> SortByDescending(Merge(records, all_teams), "total_weekly_points")]

\* ------------------------------------------------------------ refresh_data
refresh_data_without_empty_check(week, teams, scores, x) ==
  LET read == get_worksheet_data(teams, x.teams_read_ok)
      all_teams ==
        IF read # <<>> THEN read
        ELSE IF x.red_teams_ok THEN EspnTeams("brown") \o EspnTeams("red")
        ELSE EspnTeams("brown")
      teams_after ==
        IF read # <<>> THEN teams ELSE update_worksheet(teams, all_teams, x.teams_write)
      res == calculate_weekly_scores(week, all_teams,
               [x.reads EXCEPT !.week_complete = x.complete_calc])
  IN IF read = <<>> /\ ~x.brown_teams_ok
     THEN [teams |-> teams, scores |-> scores, rows |-> <<>>,
           message |-> "error", wrote |-> "none"]
     ELSE IF ~res.ok
     THEN [teams |-> teams_after, scores |-> scores, rows |-> <<>>,
           message |-> "error", wrote |-> "none"]
     ELSE IF x.complete_save
     THEN [teams |-> teams_after,
           scores |-> update_worksheet(scores, res.rows, x.scores_write),
           rows |-> res.rows, message |-> "saved", wrote |-> x.scores_write]
     ELSE [teams |-> teams_after, scores |-> scores, rows |-> res.rows,
           message |-> "live", wrote |-> "none"]

\* x is what one refresh meets outside the program:
\*   teams_read_ok    whether the read of the "teams" worksheet succeeds
\*   brown_teams_ok, red_teams_ok   whether the mTeam requests succeed
\*   teams_write, scores_write      outcomes of the two update_worksheet calls
\*   reads            what calculate_weekly_scores reads (week_complete aside)
\*   complete_calc    is_week_complete(week) as the calculator evaluates it
\*   complete_save    is_week_complete(week) as line 548 evaluates it
\* The result is the new content of the two worksheets, the rows computed
\* and the message shown.
refresh_data(week, teams, scores, x) ==
  LET read == get_worksheet_data(teams, x.teams_read_ok)
      all_teams ==
        IF read # <<>> THEN read
        ELSE IF x.red_teams_ok THEN EspnTeams("brown") \o EspnTeams("red")
        ELSE EspnTeams("brown")
      teams_after ==
        IF read # <<>> THEN teams ELSE update_worksheet(teams, all_teams, x.teams_write)
      res == calculate_weekly_scores(week, all_teams,
               [x.reads EXCEPT !.week_complete = x.complete_calc])
  IN IF read = <<>> /\ ~x.brown_teams_ok
     THEN [teams |-> teams, scores |-> scores, rows |-> <<>>,
           message |-> "error", wrote |-> "none"]
     ELSE IF ~res.ok
     THEN [teams |-> teams_after, scores |-> scores, rows |-> <<>>,
           message |-> "error", wrote |-> "none"]
     ELSE IF res.rows = <<>>
     THEN [teams |-> teams_after, scores |-> scores, rows |-> <<>>,
           message |-> "no_data", wrote |-> "none"]
     ELSE IF x.complete_save
     THEN [teams |-> teams_after,
           scores |-> update_worksheet(scores, res.rows, x.scores_write),
           rows |-> res.rows, message |-> "saved", wrote |-> x.scores_write]
     ELSE [teams |-> teams_after, scores |-> scores, rows |-> res.rows,
           message |-> "live", wrote |-> "none"]

\* ------------------------------------------------------------------ state
VARIABLES
  clock,          \* datetime.now(), in days since week_1_start
  teams_sheet,    \* the rows of the "teams" worksheet
  weekly_scores,  \* the rows of the "weekly_scores" worksheet
  last,           \* [week, message, wrote] of the most recent refresh
  view,           \* what the standings page or the records page shows
  calc_week,      \* the week of the calculator call under study
  calc_teams,     \* its all_teams_df
  calc_in,        \* what it read from outside
  calc_out        \* [done, ok, rows]: its result

store_vars == <<clock, teams_sheet, weekly_scores, last>>
NoView == [page |-> "none", brown |-> [shown |-> "none", rows |-> <<>>],
           red |-> [shown |-> "none", rows |-> <<>>],
           records |-> [shown |-> "none", rows |-> <<>>]]
calc_vars == <<calc_week, calc_teams, calc_in, calc_out>>
vars == <<clock, teams_sheet, weekly_scores, last, view,
          calc_week, calc_teams, calc_in, calc_out>>

\* what one call of calculate_weekly_scores reads: the two mRoster
\* responses, the two schedules, the cross sheet, and the mRoster responses
\* d points later to the requests made while the teams are processed
Reads(b, r, bg, rg, c, d) ==
  [brown |-> b, red |-> r, brown_games |-> bg, red_games |-> rg, cross |-> c,
   week_complete |-> FALSE,
   later |-> [brown |-> [i \in 1..RedTeams |-> Drift(b, d)],
              red |-> [i \in 1..BrownTeams |-> Drift(r, d)]]]

\* The calculator is studied on every pair of rosters, with both leagues'
\* schedules published or neither, the cross sheet filled or empty, the
\* week open or closed, and the live totals unchanged or MaxDrift higher
\* at the later requests.
SteadyInputs ==
  {[Reads(b, r, g[1], g[2], c, d) EXCEPT !.week_complete = wc] :
     b \in Rosters("brown"), r \in Rosters("red"),
     g \in {<<FullSchedule("brown"), FullSchedule("red")>>, <<NoSchedule, NoSchedule>>},
     c \in CrossSheets, wc \in BOOLEAN, d \in {0, MaxDrift}}

\* an mRoster response that lists every team of the league but the first
PartialRoster(l) ==
  [ok |-> TRUE,
   teams |-> [i \in 1..(NTeams(l) - 1) |-> [id |-> i + 1, total |-> (i % MaxScore) + 1]]]

\* The mRoster requests of line 373 are requests of their own: each may
\* answer as the request of lines 262-263 did, answer in full where that
\* one failed or was partial, or fail where that one succeeded.
FaultyInputs ==
  {[Reads(b, r, FullSchedule("brown"), FullSchedule("red"), c, 0) EXCEPT
      !.week_complete = wc,
      !.later = [brown |-> [i \in 1..RedTeams |-> lb],
                 red |-> [i \in 1..BrownTeams |-> lr]]] :
     b \in {ShiftedRoster("brown", 0), PartialRoster("brown")},
     r \in {ShiftedRoster("red", 0), PartialRoster("red"), RosterFailed},
     lb \in {ShiftedRoster("brown", 0), PartialRoster("brown"), RosterFailed},
     lr \in {ShiftedRoster("red", 0), PartialRoster("red"), RosterFailed},
     c \in CrossSheets, wc \in BOOLEAN}

CalcInputs == SteadyInputs \cup FaultyInputs

NoCalc == [done |-> FALSE, ok |-> FALSE, rows |-> <<>>]
NoRefresh == [week |-> 0, message |-> "none", wrote |-> "none"]

\* ------------------------------------------- the calculator on its inputs
CalcInit ==
  /\ calc_week \in {1, MaxWeek}
  /\ calc_teams \in TeamSheets
  /\ calc_in \in CalcInputs
  /\ calc_out = NoCalc
  /\ clock = 0 /\ teams_sheet = <<>> /\ weekly_scores = <<>> /\ last = NoRefresh
  /\ view = NoView

Calculate ==
  /\ ~calc_out.done
  /\ LET res == calculate_weekly_scores(calc_week, calc_teams, calc_in)
     IN calc_out' = [done |-> TRUE, ok |-> res.ok, rows |-> res.rows]
  /\ UNCHANGED <<calc_week, calc_teams, calc_in>>
  /\ UNCHANGED <<store_vars, view>>

CalcNext == Calculate
SpecCalc == CalcInit /\ [][CalcNext]_vars

\* ------------------------------------------------- the dashboard at work
\* The instants the clock is sampled at: the day before each week
\* completes and the day it completes.
Instants ==
  {DaysPerWeek * (w - 1) + CompleteAfterDays - e : w \in 1..MaxWeek, e \in {0, 1}}
LaterInstants(t) == {u \in Instants : u > t}
NextInstant(t) ==
  IF LaterInstants(t) = {} THEN t
  ELSE CHOOSE u \in LaterInstants(t) : \A v \in LaterInstants(t) : u <= v

BaseRoster(l) == ShiftedRoster(l, 0)
\* what a refresh may read: everything available (the live totals gaining
\* no or MaxDrift points meanwhile), the red scores unavailable, both
\* leagues' scores unavailable, the red schedule request failing, the
\* "matchups" worksheet unreadable
RefreshReads ==
  {Reads(BaseRoster("brown"), BaseRoster("red"), FullSchedule("brown"),
         FullSchedule("red"), CrossRows(MaxWeek), d) : d \in {0, MaxDrift}}
  \cup
  {Reads(BaseRoster("brown"), RosterFailed, FullSchedule("brown"),
         FullSchedule("red"), CrossRows(MaxWeek), 0),
   Reads(RosterFailed, RosterFailed, FullSchedule("brown"),
         FullSchedule("red"), CrossRows(MaxWeek), 0),
   Reads(BaseRoster("brown"), BaseRoster("red"), FullSchedule("brown"),
         ScheduleFailed, CrossRows(MaxWeek), 0),
   Reads(BaseRoster("brown"), BaseRoster("red"), FullSchedule("brown"),
         FullSchedule("red"), <<>>, 0)}

\* what a refresh of the given week may meet, the clock standing at t1 when
\* the calculator asks whether the week is complete and at t2 when line 548
\* asks again.  On the team-list side one refresh meets at most one failure:
\* the read of the "teams" worksheet fails, or the worksheet is empty and
\* one of the mTeam requests or the write of the new team list fails.
TeamEncounters(teams) ==
  {t \in [teams_read_ok : BOOLEAN, brown_teams_ok : BOOLEAN, red_teams_ok : BOOLEAN,
          teams_write : WriteOutcomes] :
     /\ (teams = <<>>) => t.teams_read_ok
     /\ (teams # <<>>) => (t.brown_teams_ok /\ t.red_teams_ok /\ t.teams_write = "ok")
     /\ ~t.brown_teams_ok => (t.red_teams_ok /\ t.teams_write = "ok")
     /\ ~t.red_teams_ok => t.teams_write = "ok"}

Encounter(week, t1, t2, t, rd, sw) ==
  [teams_read_ok |-> t.teams_read_ok, brown_teams_ok |-> t.brown_teams_ok,
   red_teams_ok |-> t.red_teams_ok, teams_write |-> t.teams_write,
   scores_write |-> sw, reads |-> rd,
   complete_calc |-> is_week_complete(week, t1),
   complete_save |-> is_week_complete(week, t2)]

Init ==
  /\ clock = NextInstant(0)
  /\ teams_sheet \in TeamSheets \cup {<<>>}
  /\ weekly_scores = <<>>
  /\ last = NoRefresh
  /\ view = NoView
  /\ calc_week = 1 /\ calc_teams = <<>> /\ calc_out = NoCalc
  /\ calc_in = Reads(RosterFailed, RosterFailed, ScheduleFailed, ScheduleFailed, <<>>, 0)

\* time passes
Tick ==
  /\ clock' \in LaterInstants(clock)
  /\ UNCHANGED <<teams_sheet, weekly_scores, last, view>>
  /\ UNCHANGED calc_vars

\* the Refresh Data button, for the selected week (the first or the last
\* of the weeks studied); the clock may reach the next instant between the
\* two evaluations of is_week_complete when that changes the answer
Refresh ==
  \E week \in {1, MaxWeek} :
    \E t2 \in {u \in {clock, NextInstant(clock)} :
                 u = clock \/ is_week_complete(week, u) # is_week_complete(week, clock)} :
    \E t \in TeamEncounters(teams_sheet), rd \in RefreshReads :
      LET tried == refresh_data(week, teams_sheet, weekly_scores,
                                Encounter(week, clock, t2, t, rd, "ok"))
      IN \E sw \in (IF tried.wrote = "none" THEN {"ok"} ELSE WriteOutcomes) :
           LET r == IF sw = "ok" THEN tried
                    ELSE refresh_data(week, teams_sheet, weekly_scores,
                                      Encounter(week, clock, t2, t, rd, sw))
           IN /\ clock' = t2
              /\ teams_sheet' = r.teams
              /\ weekly_scores' = r.scores
              /\ last' = [week |-> week, message |-> r.message, wrote |-> r.wrote]
              /\ UNCHANGED <<view, calc_vars>>

Next == Tick \/ Refresh
Spec == Init /\ [][Next]_vars

\* ------------------------------------------------- the season pages
\* The history the pages are shown over: for each of the first k weeks the
\* rows the calculator gives a closed week, the team list kept by hand.
WeekRows(w, sb, sr) ==
  calculate_weekly_scores(w, ManualTeams("brown") \o ManualTeams("red"),
    [Reads(ShiftedRoster("brown", sb), ShiftedRoster("red", sr),
           FullSchedule("brown"), FullSchedule("red"), CrossRows(SeasonWeeks), 0)
       EXCEPT !.week_complete = TRUE]).rows
RECURSIVE Histories(_)
Histories(k) ==
  IF k = 0 THEN {<<>>}
  ELSE {h \o WeekRows(k, sb, sr) :
          h \in Histories(k - 1), sb \in 0..(MaxScore - 1), sr \in {0, MaxScore - 1}}
SeasonSheets == UNION {Histories(k) : k \in 1..SeasonWeeks}

SeasonInit ==
  /\ weekly_scores \in SeasonSheets
  /\ teams_sheet \in TeamSheets
  /\ view = NoView
  /\ clock = 0 /\ last = NoRefresh
  /\ calc_week = 1 /\ calc_teams = <<>> /\ calc_out = NoCalc
  /\ calc_in = Reads(RosterFailed, RosterFailed, ScheduleFailed, ScheduleFailed, <<>>, 0)

\* show_season_standings: both leagues' standings, or the warning that there
\* is no history when the worksheet reads empty
ShowSeasonStandings ==
  \E read_ok \in BOOLEAN :
    LET weekly_scores_df == get_worksheet_data(weekly_scores, read_ok)
    IN /\ view' =
            IF weekly_scores_df = <<>>
            THEN [NoView EXCEPT !.page = "no_history"]
            ELSE [NoView EXCEPT
                    !.page = "standings",
                    !.brown = display_league_standings(weekly_scores_df, teams_sheet, "brown"),
                    !.red = display_league_standings(weekly_scores_df, teams_sheet, "red")]
       /\ UNCHANGED <<store_vars, calc_vars>>

\* show_records
ShowRecords ==
  \E read_ok \in BOOLEAN :
    LET weekly_scores_df == get_worksheet_data(weekly_scores, read_ok)
    IN /\ view' =
            IF weekly_scores_df = <<>>
            THEN [NoView EXCEPT !.page = "no_history"]
            ELSE [NoView EXCEPT !.page = "records",
                                !.records = show_records(weekly_scores_df, teams_sheet)]
       /\ UNCHANGED <<store_vars, calc_vars>>

SeasonNext == ShowSeasonStandings \/ ShowRecords
SpecSeason == SeasonInit /\ [][SeasonNext]_vars

\* ------------------------------------------------- calculator properties
CalcDone == calc_out.done /\ calc_out.ok
CalcRows == calc_out.rows
CalcRowIdx == 1..Len(calc_out.rows)
Closed == calc_in.week_complete

\* the score of team k of league l in that league's snapshot, 0 when absent
SnapshotScore(l, k) ==
  LET resp == IF l = "brown" THEN calc_in.brown ELSE calc_in.red
      hits == {i \in 1..Len(resp.teams) : resp.teams[i].id = k}
  IN IF ~resp.ok \/ hits = {} THEN 0
     ELSE resp.teams[CHOOSE i \in hits : TRUE].total

\* the scheduled intra-league opponents of team k of league l this week
ScheduledOpponents(l, k) ==
  LET sched == IF l = "brown" THEN calc_in.brown_games ELSE calc_in.red_games
      g == sched.games
  IN {IF g[i].away = k THEN g[i].home ELSE g[i].away :
        i \in {j \in 1..Len(g) : /\ g[j].matchupPeriodId = calc_week
                                 /\ g[j].away # 0 /\ g[j].home # 0
                                 /\ (g[j].away = k \/ g[j].home = k)}}

\* the pairs (a, b) of league l scheduled this week
ScheduledPairs(l) ==
  {<<a, b>> \in (1..NTeams(l)) \X (1..NTeams(l)) : b \in ScheduledOpponents(l, a)}

RowsOf(l, k) == {i \in CalcRowIdx : calc_out.rows[i].team_id = StrId(l, k)}

\* C2: in a closed week a team's intra_league_points is 1 exactly when it is
\* on either side of a game of its own league this week and its score is
\* strictly greater than that opponent's score in the league's snapshot.
C2_IntraPointsRule ==
  (CalcDone /\ Closed) =>
    \A i \in CalcRowIdx :
      LET r == calc_out.rows[i]
          won == \E o \in ScheduledOpponents(r.league, r.team_id.n) :
                    r.actual_score > SnapshotScore(r.league, o)
      IN r.intra_league_points = (IF won THEN 1 ELSE 0)

\* the 6th-highest score of the pool (the lowest one when the pool holds
\* fewer than 6 teams)
PoolScores == [i \in CalcRowIdx |-> calc_out.rows[i].actual_score]
CutoffScore ==
  CHOOSE c \in {PoolScores[i] : i \in CalcRowIdx} :
    /\ Cardinality({i \in CalcRowIdx : PoolScores[i] > c}) < Top6
    /\ \/ Cardinality({i \in CalcRowIdx : PoolScores[i] >= c}) >= Top6
       \/ \A i \in CalcRowIdx : PoolScores[i] >= c

\* C3: in a closed week top6_points is 1 exactly for the teams whose score
\* is at least the 6th-highest score of the two-league pool, so every team
\* tied at the 6th/7th boundary gets the point.
C3_TopSixByScore ==
  (CalcDone /\ Closed /\ CalcRows # <<>>) =>
    \A i \in CalcRowIdx :
      calc_out.rows[i].top6_points =
        (IF calc_out.rows[i].actual_score >= CutoffScore THEN 1 ELSE 0)

\* C6: every outcome row of a week that is not closed has 0 points on every
\* axis, 0 total points and 0 losses.
C6_OpenWeekAllZero ==
  (CalcDone /\ ~Closed) =>
    \A i \in CalcRowIdx :
      LET r == calc_out.rows[i]
      IN /\ r.intra_league_points = 0 /\ r.cross_league_points = 0
         /\ r.top6_points = 0 /\ r.total_weekly_points = 0 /\ r.weekly_losses = 0

\* an open week in which a team outscores the cross opponent its row names
C6_Witness ==
  /\ CalcDone /\ ~Closed
  /\ \E i \in CalcRowIdx :
       LET r == calc_out.rows[i]
       IN Truthy(r.cross_opponent) /\ r.actual_score > r.cross_opponent_score

\* C7: total_weekly_points is the sum of the three axes, each 0 or 1, and
\* weekly_losses is 3 - total_weekly_points in a closed week, 0 in an open one.
C7_TotalsAndLosses ==
  CalcDone =>
    \A i \in CalcRowIdx :
      LET r == calc_out.rows[i]
      IN /\ r.intra_league_points \in {0, 1} /\ r.cross_league_points \in {0, 1}
         /\ r.top6_points \in {0, 1}
         /\ r.total_weekly_points =
              r.intra_league_points + r.cross_league_points + r.top6_points
         /\ r.week_complete = Closed
         /\ r.weekly_losses = (IF r.week_complete THEN 3 - r.total_weekly_points ELSE 0)
         /\ (r.week_complete => r.total_weekly_points + r.weekly_losses = 3)

\* a closed week with a row of two points and a row of none
C7_Witness ==
  /\ CalcDone /\ Closed
  /\ \E i, j \in CalcRowIdx :
       /\ calc_out.rows[i].total_weekly_points = 2 /\ calc_out.rows[i].weekly_losses = 1
       /\ calc_out.rows[j].total_weekly_points = 0 /\ calc_out.rows[j].weekly_losses = 3

\* C8: in a closed week the two sides of an intra-league game never both get
\* the intra point; the sum is 1 only if exactly one strictly outscored the
\* other, and 0 when the scores are equal.
C8_IntraPairAtMostOne ==
  (CalcDone /\ Closed) =>
    \A l \in Leagues : \A p \in ScheduledPairs(l) :
      \A i \in RowsOf(l, p[1]) : \A j \in RowsOf(l, p[2]) :
        LET ra == calc_out.rows[i]
            rb == calc_out.rows[j]
            sum == ra.intra_league_points + rb.intra_league_points
        IN /\ sum <= 1
           /\ (sum = 1 => ra.actual_score # rb.actual_score)
           /\ (ra.actual_score = rb.actual_score => sum = 0)

\* a closed week with a tied game and a game that is not tied
C8_Witness ==
  /\ CalcDone /\ Closed
  /\ \E l \in Leagues : \E p, q \in ScheduledPairs(l) :
       \E i \in RowsOf(l, p[1]), j \in RowsOf(l, p[2]),
          m \in RowsOf(l, q[1]), n \in RowsOf(l, q[2]) :
         /\ calc_out.rows[i].actual_score = calc_out.rows[j].actual_score
         /\ calc_out.rows[m].actual_score > calc_out.rows[n].actual_score

\* ------------------------------------------------------ store properties
RowsOfOtherWeeks(sheet, week) == SelectSeq(sheet, LAMBDA row : row.week # week)
RowsOfWeek(sheet, week) == SelectSeq(sheet, LAMBDA row : row.week = week)

\* C1: a refresh of week P that writes the "weekly_scores" worksheet leaves
\* the stored rows of every other week as they were.
C1_OtherWeeksUntouched ==
  [][(last'.message = "saved" /\ last'.wrote = "ok") =>
       RowsOfOtherWeeks(weekly_scores', last'.week)
         = RowsOfOtherWeeks(weekly_scores, last'.week)]_vars

\* the refreshes of the selected week that can be made twice in a row with
\* the same inputs from the current state: both evaluations of
\* is_week_complete give what the clock says now
RepeatableEncounters(week) ==
  {Encounter(week, clock, clock, t, rd, sw) :
     t \in TeamEncounters(teams_sheet), rd \in RefreshReads, sw \in WriteOutcomes}

\* C9: refreshing a week twice in a row with identical inputs computes the
\* same rows both times and leaves the "weekly_scores" worksheet after the
\* second refresh as it was after the first.
C9_RefreshTwiceSame ==
  \A week \in 1..MaxWeek : \A x \in RepeatableEncounters(week) :
    LET first == refresh_data(week, teams_sheet, weekly_scores, x)
        second == refresh_data(week, first.teams, first.scores, x)
    IN second.rows = first.rows /\ second.scores = first.scores

\* a refresh has saved its rows, and the same refresh made again computes
\* and saves those rows over stored rows
C9_Witness ==
  /\ last.message = "saved" /\ last.wrote = "ok" /\ weekly_scores # <<>>
  /\ \E x \in RepeatableEncounters(last.week) :
       LET again == refresh_data(last.week, teams_sheet, weekly_scores, x)
       IN /\ again.message = "saved" /\ again.wrote = "ok"
          /\ again.rows = weekly_scores /\ again.scores = weekly_scores

\* ----------------------------------------------------- season properties
SeasonScore(id) == ColumnSum(GroupRows(weekly_scores, id), "actual_score")

\* a ranks before b: more points, or as many points and a higher summed
\* score, or equal on both and the earlier team id
InClaimedOrder(a_points, a_score, a_id, b_points, b_score, b_id) ==
  \/ a_points > b_points
  \/ /\ a_points = b_points
     /\ \/ a_score > b_score
        \/ a_score = b_score /\ IdBefore(a_id, b_id)

\* C5: the standings are ranked by summed total points descending, then by
\* summed actual score descending, then in the order of the team ids; rank
\* 1 is the first row.
C5_RankedByPointsThenScore ==
  /\ view.page = "standings" =>
       \A l \in Leagues :
         LET rows == view[l].rows
         IN \A i, j \in 1..Len(rows) :
              /\ rows[i].rank = i
              /\ i < j => InClaimedOrder(rows[i].wins, rows[i].total_points,
                                         rows[i].team_id, rows[j].wins,
                                         rows[j].total_points, rows[j].team_id)
  /\ view.page = "records" =>
       LET rows == view.records.rows
       IN \A i, j \in 1..Len(rows) :
            i < j => InClaimedOrder(rows[i].total_weekly_points,
                                    SeasonScore(rows[i].team_id), rows[i].team_id,
                                    rows[j].total_weekly_points,
                                    SeasonScore(rows[j].team_id), rows[j].team_id)

\* the value a page shows for a team in a column, 0 when the team has no row
Shown(result, id, col) ==
  LET hits == {i \in 1..Len(result.rows) : result.rows[i].team_id = id}
  IN IF hits = {} THEN 0 ELSE result.rows[CHOOSE i \in hits : TRUE][col]

UpToWeek(k) == SelectSeq(weekly_scores, LAMBDA row : row.week <= k)
AfterWeek(k) == SelectSeq(weekly_scores, LAMBDA row : row.week > k)
Reversed(df) == [i \in 1..Len(df) |-> df[Len(df) + 1 - i]]

\* C10: what the pages show for a team is the sum of what they would show
\* for the rows of the weeks up to k and for the rows of the later weeks,
\* for every k, and it is the same for the rows taken in the reverse order:
\* points, losses and score.
C10_AggregationSplits ==
  /\ view.page = "standings" =>
       \A l \in Leagues : \A i \in 1..Len(view[l].rows) : \A k \in 0..SeasonWeeks :
         LET v == view[l].rows[i]
             early == display_league_standings(UpToWeek(k), teams_sheet, l)
             late == display_league_standings(AfterWeek(k), teams_sheet, l)
             back == display_league_standings(Reversed(weekly_scores), teams_sheet, l)
         IN \A col \in {"wins", "losses", "total_points"} :
              /\ v[col] = Shown(early, v.team_id, col) + Shown(late, v.team_id, col)
              /\ v[col] = Shown(back, v.team_id, col)
  /\ view.page = "records" =>
       \A i \in 1..Len(view.records.rows) : \A k \in 0..SeasonWeeks :
         LET v == view.records.rows[i]
             early == show_records(UpToWeek(k), teams_sheet)
             late == show_records(AfterWeek(k), teams_sheet)
             back == show_records(Reversed(weekly_scores), teams_sheet)
         IN \A col \in {"intra_league_points", "cross_league_points", "top6_points",
                        "total_weekly_points", "weekly_losses"} :
              /\ v[col] = Shown(early, v.team_id, col) + Shown(late, v.team_id, col)
              /\ v[col] = Shown(back, v.team_id, col)

\* the standings over weeks 1, 2 and 3 show a team that has points, losses
\* and score both in weeks {1, 2} and in week {3}
C10_Witness ==
  /\ view.page = "standings"
  /\ \E i \in 1..Len(view.brown.rows) :
       LET v == view.brown.rows[i]
           early == display_league_standings(UpToWeek(2), teams_sheet, "brown")
           late == display_league_standings(AfterWeek(2), teams_sheet, "brown")
       IN \A col \in {"wins", "losses", "total_points"} :
            /\ Shown(early, v.team_id, col) > 0 /\ Shown(late, v.team_id, col) > 0
            /\ v[col] = Shown(early, v.team_id, col) + Shown(late, v.team_id, col)

\* ------------------------------------------------- opponent properties
\* the score snapshot of league l taken at lines 262-263
Snapshot(l) == get_live_scores(l, IF l = "brown" THEN calc_in.brown ELSE calc_in.red)

\* the pairs <<brown team, red team>> of this week's rows of the "matchups"
\* worksheet whose two names are each on a team of the stated league
ResolvedPairs ==
  LET rows == {i \in 1..Len(calc_in.cross) :
                 /\ calc_in.cross[i].week = calc_week
                 /\ FindTeam(calc_teams, calc_in.cross[i].brown_league_manager, "brown") # 0
                 /\ FindTeam(calc_teams, calc_in.cross[i].red_league_manager, "red") # 0}
  IN {<<calc_teams[FindTeam(calc_teams, calc_in.cross[i].brown_league_manager,
                            "brown")].team_id,
        calc_teams[FindTeam(calc_teams, calc_in.cross[i].red_league_manager,
                            "red")].team_id>> : i \in rows}

\* the teams the list pairs the team id of league l with
PairedWith(id, l) ==
  IF l = "brown" THEN {p[2] : p \in {q \in ResolvedPairs : q[1] = id}}
  ELSE {p[1] : p \in {q \in ResolvedPairs : q[2] = id}}

\* C11: the outcome row of a team X that this week's cross-pairing list
\* pairs with a team Y of the other league names Y as cross_opponent and
\* carries as cross_opponent_score Y's score in the other league's snapshot
\* of lines 262-263, whatever the score source answers later in the refresh.
C11_CrossScoreFromSnapshot ==
  CalcDone =>
    \A i \in CalcRowIdx :
      LET r == calc_out.rows[i]
      IN \A y \in PairedWith(r.team_id, r.league) :
           /\ r.cross_opponent = y
           /\ r.cross_opponent_score = DictGet(Snapshot(OtherLeague(r.league)), y, 0)

C14_AbsentTeamsScoreZero ==
  CalcDone =>
    /\ \A l \in Leagues : \A k \in DictKeys(Snapshot(l)) :
         Cardinality({i \in CalcRowIdx : calc_out.rows[i].team_id = k}) = 1
    /\ \A i \in CalcRowIdx :
         LET r == calc_out.rows[i]
         IN /\ r.team_id \in DictKeys(Snapshot(r.league))
            /\ (Truthy(r.intra_opponent)
                  /\ r.intra_opponent \notin DictKeys(Snapshot(r.league)))
                 => r.intra_opponent_score = 0
            /\ (Truthy(r.cross_opponent)
                  /\ r.cross_opponent \notin DictKeys(Snapshot(OtherLeague(r.league))))
                 => r.cross_opponent_score = 0

\* C17: in a closed week two teams whose rows name each other as cross
\* opponent have at most one cross point between them, and none when their
\* recorded scores are equal.
C17_CrossPairAtMostOne ==
  (CalcDone /\ Closed) =>
    \A i, j \in CalcRowIdx :
      LET x == calc_out.rows[i]
          y == calc_out.rows[j]
      IN (x.cross_opponent = y.team_id /\ y.cross_opponent = x.team_id) =>
           /\ x.cross_league_points + y.cross_league_points <= 1
           /\ x.actual_score = y.actual_score =>
                (x.cross_league_points = 0 /\ y.cross_league_points = 0)

\* ------------------------------------------------ store failure properties
\* the reads of a refresh in which both leagues' snapshots come back empty
EmptyReads ==
  {rd \in RefreshReads :
     get_live_scores("brown", rd.brown) = <<>> /\ get_live_scores("red", rd.red) = <<>>}

C15_FailedWriteNotReportedSaved ==
  last.wrote \in {"failed_before_clear", "failed_after_clear"} => last.message # "saved"

\* C16: every row of the "weekly_scores" worksheet has week_complete = TRUE.
C16_StoredRowsAreClosed ==
  \A i \in 1..Len(weekly_scores) : weekly_scores[i].week_complete

\* C18: a refresh whose write of the "weekly_scores" worksheet failed after
\* it had started leaves the worksheet as it was before the refresh.
C18_FailedWriteKeepsHistory ==
  [][last'.wrote = "failed_after_clear" => weekly_scores' = weekly_scores]_vars

====
